---- MODULE Spec2Model ----
(***************************************************************************)
(* Model of the Woolworths catalogue scraper.                              *)
(*                                                                         *)
(*   scraper.py       main(), BaseScraper (safe_get, get_page_source,      *)
(*                    scrape_products) and WoolworthsScraper               *)
(*                    (fetch_categories, extract_product_data,             *)
(*                    fetch_product_page, goto_next_page)                  *)
(*   frappe_write.py  check_product_exists, update_product,                *)
(*                    create_product, test_write_to_frappe (the upsert)    *)
(*                                                                         *)
(* The program is sequential.  Its environment is the web site shown by    *)
(* the one browser session and the remote catalogue service; both are      *)
(* revealed step by step: what a page holds is chosen when the browser     *)
(* loads it, what the remote answers is chosen when a request is sent.     *)
(*                                                                         *)
(* Specifications:                                                         *)
(*   Spec         main() on a site whose listing tiles are all alike       *)
(*   SpecScrape   main() over one category whose tiles may differ          *)
(*   SpecEndless  main() over one category whose pagination goes round     *)
(*   SpecUpsert   frappe_write.py run on its own                           *)
(*   SpecFields   a field extractor or the record mapping on one input     *)
(***************************************************************************)
EXTENDS Integers, Sequences, FiniteSets, TLC

(***************************************************************************)
(* Bounds of the model.                                                    *)
(***************************************************************************)
MaxPages == 2       \* listing pages a category of the site has at most
MaxEntries == 2     \* listing entries a listing page has at most
MaxAnchors == 2     \* category anchors the root page has at most
MaxCalls == 3       \* upsert calls the stand-alone harness makes at most
MaxOdd == 1         \* times the site departs from its usual behaviour in a
                    \* category at most: a tile that differs from the usual
                    \* tile, or a click on the next control that changes
                    \* nothing
MaxDigits == 2      \* characters a numeric text of a tile has at most
MaxCrumbs == 3      \* items a breadcrumb has at most

(***************************************************************************)
(* Program constants.                                                      *)
(***************************************************************************)
max_retries == 3    \* ScraperConfig.max_retries

(***************************************************************************)
(* The environment's alphabets.                                            *)
(***************************************************************************)
\* statuses the remote answers the existence GET with
GetStatuses == {200, 404, 500}
\* statuses the remote answers a PUT or a POST with
WriteStatuses == {200, 404, 500}
\* state of the "li.next a" control of a page
Controls == {"absent", "hidden", "disabled", "enabled"}
\* the href of a category anchor of the root page, 0 for an anchor without
\* href; the program never compares two hrefs, so one href, which the root
\* page may repeat, stands for any
Hrefs == 0..1
\* ids of the products the stand-alone harness upserts
HarnessIds == 1..2

VARIABLES
    \* ---- main()
    mpc,          \* position of main(): "start", "fetch_categories",
                  \* "category", "scraping", "product", "reconcile", "done",
                  \* or "harness" (frappe_write.py run on its own)
    categories,   \* main: categories, a sequence of category urls
    catIdx,       \* main: index of the category of the for loop
    mproducts,    \* main: products, what scrape_products returned
    prodIdx,      \* main: index of the product of the inner for loop
    outfile,      \* the records written to the output file, in order
    nReturned,    \* number of products the traversals returned so far
    nUpserts,     \* number of test_write_to_frappe calls made so far
    nScraped,     \* number of scrape_products calls made so far
    raiseStage,   \* 0: no upsert has raised; 1: one has raised in the
                  \* current category; 2: and a later product of that
                  \* category was sent to the upsert; 3: and a later
                  \* category was traversed
    \* ---- BaseScraper / WoolworthsScraper
    tpc,          \* position of the scraper: "idle", "safe_get",
                  \* "get_page_source", "extract", "goto_next_page",
                  \* "returned"
    navCaller,    \* who called safe_get
    attempt,      \* safe_get: attempt
    navLog,       \* events of the current safe_get call
    current_page, \* scrape_products: current_page
    products,     \* scrape_products: products
    product_entries, \* scrape_products: number of entries of the parsed page
    entryIdx,     \* scrape_products: index of the entry of the for loop
    result,       \* what scrape_products returned
    extracted,    \* listing pages extracted by this traversal, in order
    clicks,       \* current_page at each activation of the next control
    ended,        \* why the traversal ended
    seen,         \* the entries handed to extract_product_data by this
                  \* traversal, in order: position in the listing of the
                  \* category, and kind
    \* ---- the browser session and the site
    page,         \* the listing page the site served last
    onDetail,     \* the session displays a product detail page
    maxPage,      \* highest numeric page label of the category's pagination
    normal,       \* the kind of the site's usual listing tile
    oddLeft,      \* number of times the site may still depart from its
                  \* usual behaviour
    endless,      \* the pagination of the site has no last page
    \* ---- test_write_to_frappe
    upc,          \* position of the upsert: "idle", "check", "update",
                  \* "create", "returned", "raised"
    uprod,        \* the product of the upsert
    exists,       \* test_write_to_frappe: exists
    calls,        \* requests the current upsert call has issued, in order
    prev,         \* harness: id, requests and outcome of the previous call
    \* ---- the field extractors and the record mapping, run on their own
    fpc,          \* position: "idle", "start", "crumbs", "product", "done"
    arg,          \* the input: a text of a tile, or the items of a breadcrumb
    out           \* what the function applied last has returned

mainVars == <<mpc, categories, catIdx, mproducts, prodIdx, outfile,
              nReturned, nUpserts, nScraped, raiseStage>>
scraperVars == <<tpc, navCaller, attempt, navLog, current_page, products,
                 product_entries, entryIdx, result, extracted, clicks, ended,
                 seen>>
siteVars == <<page, onDetail, maxPage>>
envVars == <<normal, oddLeft, endless>>
upsertVars == <<upc, uprod, exists, calls, prev>>
fieldVars == <<fpc, arg, out>>
vars == <<mainVars, scraperVars, siteVars, envVars, upsertVars, fieldVars>>

NoPage == [no |-> 0, nentries |-> 0, ctl |-> "absent"]
\* a product as the traversal, main and the upsert handle it: id is the
\* number its id reads, 0 for the empty id; price tells that it has a
\* currentPrice; path is its product_categories, <<>> when it has none
NoProduct == [id |-> 0, price |-> TRUE, path |-> <<>>]
NoCall == [id |-> 0, calls |-> <<>>, outcome |-> "idle"]

\* the listing pages the site can serve as page number no
ListingPages(no) ==
    { [no |-> no, nentries |-> n, ctl |-> c] :
        n \in 0..MaxEntries,
        c \in IF endless \/ no < MaxPages THEN Controls
              ELSE Controls \ {"enabled"} }

\* the number of the page that follows the page the site served last; the
\* pagination of an endless site goes round
NextPageNo == IF endless THEN (page.no % MaxPages) + 1 ELSE page.no + 1

\* a log of the traversal with one more event; nothing is logged on an
\* endless site
Record(log, event) == IF endless THEN log ELSE Append(log, event)


(***************************************************************************)
(* frappe_write.py: the reconciliation client.                             *)
(***************************************************************************)
\* a request to {base}/{id}; id 0 stands for the base url {base} itself
Request(method, id, status) == [method |-> method, id |-> id, status |-> status]

\* an existence check that takes every status but 404 for "exists"
exists_unless_404(status) == status # 404

\* check_product_exists: the first component of its result
\* (True for 200, False for 404, False and an error log line for the rest)
exists_of_status(status) ==
    IF status = 200 THEN TRUE
    ELSE IF status = 404 THEN FALSE
    ELSE FALSE

\* requests' Response.raise_for_status: HTTPError for 4xx and 5xx
raise_for_status(status) == status >= 400 /\ status < 600

\* an update_product that logs a failed PUT as create_product does
update_product_swallows(status) == FALSE

\* update_product: raise_for_status is not guarded, the HTTPError leaves
update_product_raises(status) == raise_for_status(status)

\* create_product: raise_for_status is inside try/except HTTPError; the
\* handler logs and falls through, so no status makes create_product raise
create_product_raises(status) == FALSE

\* test_write_to_frappe(product) is entered: the record is mapped and the
\* existence check is next
EnterUpsert(p) ==
    /\ upc' = "check"
    /\ uprod' = p
    /\ exists' = FALSE
    /\ calls' = <<>>
    /\ nUpserts' = nUpserts + 1

\* an upsert with the branches of lines 80-85 exchanged
check_product_exists_inverted ==
    /\ upc = "check"
    /\ \E status \in GetStatuses :
          /\ calls' = Append(calls, Request("GET", uprod.id, status))
          /\ exists' = exists_of_status(status)
          /\ upc' = IF exists_of_status(status) THEN "create" ELSE "update"
    /\ UNCHANGED <<uprod, prev>>
    /\ UNCHANGED <<mainVars, scraperVars, siteVars, envVars, fieldVars>>

\* line 78: exists, existing_product = check_product_exists(product_id)
check_product_exists ==
    /\ upc = "check"
    /\ \E status \in GetStatuses :
          /\ calls' = Append(calls, Request("GET", uprod.id, status))
          /\ exists' = exists_of_status(status)
          /\ upc' = IF exists_of_status(status) THEN "update" ELSE "create"
    /\ UNCHANGED <<uprod, prev>>
    /\ UNCHANGED <<mainVars, scraperVars, siteVars, envVars, fieldVars>>

\* lines 80-82: update_product(product_id, frappe_product)
update_product ==
    /\ upc = "update"
    /\ \E status \in WriteStatuses :
          /\ calls' = Append(calls, Request("PUT", uprod.id, status))
          /\ upc' = IF update_product_raises(status) THEN "raised" ELSE "returned"
    /\ UNCHANGED <<uprod, exists, prev>>
    /\ UNCHANGED <<mainVars, scraperVars, siteVars, envVars, fieldVars>>

\* a create_product that sends the POST again when it failed
create_product_retry ==
    /\ upc = "create"
    /\ \E status \in WriteStatuses :
          /\ calls' = IF raise_for_status(status)
                      THEN calls \o <<Request("POST", 0, status),
                                      Request("POST", 0, status)>>
                      ELSE Append(calls, Request("POST", 0, status))
          /\ upc' = "returned"
    /\ UNCHANGED <<uprod, exists, prev>>
    /\ UNCHANGED <<mainVars, scraperVars, siteVars, envVars, fieldVars>>

\* lines 83-85: create_product(frappe_product); the POST goes to the base url
create_product ==
    /\ upc = "create"
    /\ \E status \in WriteStatuses :
          /\ calls' = Append(calls, Request("POST", 0, status))
          /\ upc' = IF create_product_raises(status) THEN "raised" ELSE "returned"
    /\ UNCHANGED <<uprod, exists, prev>>
    /\ UNCHANGED <<mainVars, scraperVars, siteVars, envVars, fieldVars>>

\* frappe_write.py run on its own: one test_write_to_frappe call per run
harness_call ==
    /\ mpc = "harness"
    /\ upc \in {"idle", "returned", "raised"}
    /\ nUpserts < MaxCalls
    /\ \E id \in HarnessIds : EnterUpsert([id |-> id, price |-> TRUE, path |-> <<>>])
    /\ prev' = IF nUpserts = 0 THEN NoCall
               ELSE [id |-> uprod.id, calls |-> calls, outcome |-> upc]
    /\ UNCHANGED <<mpc, categories, catIdx, mproducts, prodIdx, outfile,
                   nReturned, nScraped, raiseStage>>
    /\ UNCHANGED <<scraperVars, siteVars, envVars, fieldVars>>


(***************************************************************************)
(* scraper.py: the field extractors of a listing tile.  A text is a        *)
(* sequence of characters; an element a selector may not find is the       *)
(* empty sequence when it is missing and <<text>> when it is there.        *)
(***************************************************************************)
DigitChars == <<"0", "1", "2", "3", "4", "5", "6", "7", "8", "9">>

\* the regular expression class \d
IsDigit(c) == \E i \in DOMAIN DigitChars : DigitChars[i] = c

DigitValue(c) == (CHOOSE i \in DOMAIN DigitChars : DigitChars[i] = c) - 1

\* the texts over chars that have lo to hi characters
TextsOver(chars, lo, hi) == UNION { [1..n -> chars] : n \in lo..hi }

\* what a selector can give for an element whose text is in texts
Opt(texts) == {<<>>} \cup { <<t>> : t \in texts }

\* re.sub(r"\D", "", text)
RECURSIVE DigitsOf(_)
DigitsOf(text) ==
    IF text = <<>> THEN <<>>
    ELSE (IF IsDigit(Head(text)) THEN <<Head(text)>> ELSE <<>>)
         \o DigitsOf(Tail(text))

\* str.strip()
RECURSIVE Strip(_)
Strip(text) ==
    IF text = <<>> THEN <<>>
    ELSE IF Head(text) = " " THEN Strip(Tail(text))
    ELSE IF text[Len(text)] = " " THEN Strip(SubSeq(text, 1, Len(text) - 1))
    ELSE text

RECURSIVE IntOf(_)
IntOf(digits) ==
    IF digits = <<>> THEN 0
    ELSE IntOf(SubSeq(digits, 1, Len(digits) - 1)) * 10
         + DigitValue(digits[Len(digits)])

\* the number of characters of text that follow its first "."
RECURSIVE AfterPoint(_)
AfterPoint(text) ==
    IF text = <<>> THEN 0
    ELSE IF Head(text) = "." THEN Len(text) - 1
    ELSE AfterPoint(Tail(text))

\* float(text) of a decimal literal: the number num / 10^exp
float(text) == [num |-> IntOf(DigitsOf(text)), exp |-> AfterPoint(text)]

\* a float times an integer
Times(x, n) == [num |-> x.num * n, exp |-> x.exp]

\* extract_product_data, lines 229-234: the product before its fields are
\* extracted (of the constant fields only sourceSite is kept)
NewProduct == [sourceSite |-> "woolworths.co.nz"]

\* extract_product_data, line 230: the id of the product, from the DOM id
\* of the title of the tile
product_id(dom_id) == DigitsOf(dom_id)

\* _extract_price, line 287: the literal handed to float()
price_text(whole, cent_text) ==
    whole \o (IF cent_text # <<>> THEN <<".">> ELSE <<>>)
          \o (IF cent_text # <<>> THEN cent_text ELSE <<"0", "0">>)

\* _extract_price, lines 280-287, on the price block of a tile
extract_price(entry, product) ==
    IF entry.h3 /\ entry.em # <<>> /\ entry.span # <<>>
    THEN LET cent_text == DigitsOf(Strip(entry.span[1]))
         IN  product @@ ("currentPrice" :> float(price_text(entry.em[1], cent_text)))
    ELSE product

\* the alternatives of the unit group of the unit-price pattern, in order
UnitAlternatives == << <<"g">>, <<"k", "g">>, <<"m", "l">>, <<"l">> >>

IsPrefix(p, text) == Len(p) <= Len(text) /\ SubSeq(text, 1, Len(p)) = p

\* re.match(r"\$([\d.]+) \/ (\d+(g|kg|ml|l))", "$<amount> / <qty><rest>"):
\* the groups 1 and 2 of the match, or <<>> when the text does not match
unit_price_match(text) ==
    LET alts == { i \in DOMAIN UnitAlternatives :
                      IsPrefix(UnitAlternatives[i], text.rest) }
    IN  IF alts = {} THEN <<>>
        ELSE LET first == CHOOSE i \in alts : \A k \in alts : i <= k
             IN  <<text.amount, text.qty \o UnitAlternatives[first]>>

\* _process_unit_price, line 299: unit = match.group(2)[-2:]
unit_of_group(group) ==
    IF Len(group) <= 2 THEN group
    ELSE SubSeq(group, Len(group) - 1, Len(group))

\* _process_unit_price, lines 297-309
process_unit_price(match, product) ==
    LET unit_price == float(match[1])
        unit == unit_of_group(match[2])
    IN  IF unit = <<"g">>
        THEN product @@ ("unitPrice" :> Times(unit_price, 1000))
                     @@ ("unitName" :> <<"k", "g">>)
        ELSE IF unit = <<"m", "l">>
        THEN product @@ ("unitPrice" :> Times(unit_price, 1000))
                     @@ ("unitName" :> <<"L">>)
        ELSE product @@ ("unitPrice" :> unit_price) @@ ("unitName" :> unit)

\* _extract_unit_price, lines 289-295, on the span.cupPrice of a tile
extract_unit_price(entry, product) ==
    IF entry.cupPrice # <<>> /\ unit_price_match(entry.cupPrice[1]) # <<>>
    THEN process_unit_price(unit_price_match(entry.cupPrice[1]), product)
    ELSE product

\* the label extract_breadcrumbs takes from a breadcrumb item, span first
crumb_label_span_first(item) ==
    IF item.span # <<>> /\ Strip(item.span[1]) # <<>>
    THEN <<Strip(item.span[1])>>
    ELSE IF item.a # <<>> /\ Strip(item.a[1]) # <<>>
    THEN <<Strip(item.a[1])>>
    ELSE <<>>

\* extract_breadcrumbs, lines 205-213: the label of one li of the
\* breadcrumb, <<>> when the item gives none
crumb_label(item) ==
    IF item.a # <<>> /\ Strip(item.a[1]) # <<>>
    THEN <<Strip(item.a[1])>>
    ELSE IF item.span # <<>> /\ Strip(item.span[1]) # <<>>
    THEN <<Strip(item.span[1])>>
    ELSE <<>>

\* extract_breadcrumbs, lines 203-213: the for loop over the items
RECURSIVE CrumbsOf(_)
CrumbsOf(items) ==
    IF items = <<>> THEN <<>>
    ELSE (IF crumb_label(Head(items)) # <<>>
          THEN <<[category_name |-> crumb_label(Head(items))[1]]>>
          ELSE <<>>)
         \o CrumbsOf(Tail(items))

\* extract_breadcrumbs, lines 192-221, on a parsed product detail page.
\* The statements of the loop do not raise on parsed elements; the
\* rendering of the whole page for the debug line, line 195, which comes
\* first, is where a page the parser cannot handle makes the function raise,
\* and the handler returns the list as it is then
extract_breadcrumbs(soup) ==
    IF soup.raises THEN <<>>
    ELSE IF ~ soup.container THEN <<>>
    ELSE CrumbsOf(soup.items)

\* extract_product_data, lines 265-269
set_product_categories(product, breadcrumb_info) ==
    IF breadcrumb_info # <<>>
    THEN product @@ ("product_categories" :>
             [i \in DOMAIN breadcrumb_info |-> breadcrumb_info[i].category_name])
    ELSE product

(***************************************************************************)
(* frappe_write.py: the mapping of a product to the remote record.         *)
(***************************************************************************)
\* product.get('product_categories', [])
get_product_categories(product) ==
    IF "product_categories" \in DOMAIN product
    THEN product.product_categories
    ELSE <<>>

\* a mapping that takes the element of index 1
category_of_second(product_categories) ==
    IF Len(product_categories) > 2 THEN product_categories[2] ELSE <<>>

\* test_write_to_frappe, line 58: the element of index 2, or ''
category_of(product_categories) ==
    IF Len(product_categories) > 2 THEN product_categories[3] ELSE <<>>

\* test_write_to_frappe, lines 56-75: the fields of frappe_product that are
\* made from the category path
frappe_product(product) ==
    LET product_categories == get_product_categories(product)
    IN  [category |-> category_of(product_categories),
         product_categories |->
             [i \in DOMAIN product_categories |->
                 [category_name |-> product_categories[i]]]]

(***************************************************************************)
(* scraper.py: BaseScraper and WoolworthsScraper.                          *)
(***************************************************************************)
\* a safe_get that gives up one attempt early
last_attempt_early(a) == a = max_retries - 2

\* safe_get, line 107: the failed attempt was the last one
last_attempt(a) == a = max_retries - 1

\* what safe_get leaves to its caller when it returns ok
SafeGetReturn(ok) ==
    IF navCaller = "fetch_categories"
    THEN /\ tpc' = IF ok THEN "fetch_categories" ELSE "returned"
         /\ UNCHANGED <<current_page, products, result, ended>>
    ELSE \* scrape_products, lines 121-125
         /\ tpc' = IF ok THEN "get_page_source" ELSE "returned"
         /\ current_page' = IF ok THEN 1 ELSE current_page
         /\ products' = <<>>
         /\ result' = <<>>
         /\ ended' = IF ok THEN "running" ELSE "abandoned"

\* safe_get: one pass of the for loop, lines 100-109
safe_get ==
    /\ tpc = "safe_get"
    /\ attempt < max_retries
    /\ \/ \* driver.get(url) succeeds: sleep and return True
          /\ navLog' = navLog \o <<"get_ok", "sleep">>
          /\ attempt' = attempt
          /\ onDetail' = FALSE
          /\ IF navCaller = "fetch_categories"
             THEN page' = NoPage /\ maxPage' = 0
             ELSE page' \in ListingPages(1) /\ maxPage' \in 0..MaxPages
          /\ SafeGetReturn(TRUE)
       \/ \* driver.get(url) raises
          /\ UNCHANGED siteVars
          /\ IF last_attempt(attempt)
             THEN /\ navLog' = Append(navLog, "get_fail")
                  /\ attempt' = attempt
                  /\ SafeGetReturn(FALSE)
             ELSE /\ navLog' = navLog \o <<"get_fail", "sleep">>
                  /\ attempt' = attempt + 1
                  /\ UNCHANGED <<tpc, current_page, products, result, ended>>
    /\ UNCHANGED <<navCaller, product_entries, entryIdx, extracted, clicks,
                   seen>>
    /\ UNCHANGED <<mainVars, upsertVars, envVars, fieldVars>>

\* a traversal that gives its products up when a page fails
Break_discard(why) ==
    /\ tpc' = "returned"
    /\ result' = <<>>
    /\ ended' = why
    /\ UNCHANGED <<current_page, clicks, siteVars>>

\* the traversal ends: scrape_products breaks and returns products
Break(why) ==
    /\ tpc' = "returned"
    /\ result' = products
    /\ ended' = why
    /\ UNCHANGED <<current_page, clicks, siteVars>>

\* find_product_entries on the parsed source of the page the session shows:
\* a product detail page has no listing grid
find_product_entries == IF onDetail THEN 0 ELSE page.nentries

\* scrape_products, lines 128-134: the top of the while loop
get_page_source ==
    /\ tpc = "get_page_source"
    /\ \/ \* driver.page_source raises: get_page_source returns None, break
          /\ Break("no_source")
          /\ UNCHANGED <<product_entries, entryIdx, extracted, attempt, navLog>>
       \/ IF find_product_entries = 0
          THEN \* line 133: no entries, break
               /\ Break("no_entries")
               /\ product_entries' = 0
               /\ UNCHANGED <<entryIdx, extracted, attempt, navLog>>
          ELSE /\ tpc' = "extract"
               /\ product_entries' = find_product_entries
               /\ entryIdx' = 1
               /\ extracted' = Record(extracted, page)
               \* safe_get is long over: its locals and its log are dropped
               /\ attempt' = 0
               /\ navLog' = <<>>
               /\ UNCHANGED <<result, ended, current_page, clicks, siteVars>>
    /\ UNCHANGED <<navCaller, products, seen>>
    /\ UNCHANGED <<mainVars, upsertVars, envVars, fieldVars>>

\* the number of listing entries of a sequence of pages
RECURSIVE TotalEntries(_)
TotalEntries(pages) ==
    IF pages = <<>> THEN 0
    ELSE Head(pages).nentries + TotalEntries(Tail(pages))

\* the kinds of listing tile: the two usual ones,
\*   "plain"        a tile with title, id, price and no product-detail link
\*   "linked"       one with a link to a detail page that has a breadcrumb
\* and the ones that differ from the usual tile of the site in one respect,
\*   "no_title"     no h3[id*='-title'] element
\*   "raises"       a text of the tile makes the extraction raise
\*   "no_digits"    the DOM id of the title has no digit
\*   "no_price"     the price block lacks an element
\*   "fetch_error"  a link, and driver.get(product url) raises
\*   "no_container" a link to a detail page without cdx-breadcrumb
\*   "parse_error"  a link to a detail page extract_breadcrumbs raises on
Usual == {"plain", "linked"}
Misses == {"no_title", "raises"}
OddKinds == Misses \cup {"no_digits", "no_price", "fetch_error",
                         "no_container", "parse_error"}

\* the kinds a tile of the listing can have
Tiles == {normal} \cup (IF oddLeft > 0 THEN (Usual \cup OddKinds) \ {normal}
                        ELSE {})

\* the number of tiles on the pages of the category that come before page
\* number no, all of which the traversal has parsed
RECURSIVE EntriesBefore(_)
EntriesBefore(no) ==
    IF no <= 1 \/ endless THEN 0
    ELSE (CHOOSE pg \in { extracted[i] : i \in DOMAIN extracted } :
              pg.no = no - 1).nentries
         + EntriesBefore(no - 1)

\* the kinds the tile at position pos was seen to have by this traversal
KnownKinds(pos) == { seen[i].kind : i \in { j \in DOMAIN seen : seen[j].pos = pos } }

\* the kinds the tile at position pos can have: a tile parsed again is
\* what it was
TilesAt(pos) == IF KnownKinds(pos) # {} THEN KnownKinds(pos) ELSE Tiles

\* the tile has an a[href*='productdetails'] element with an href
HasLink(kind) ==
    \/ kind \in {"linked", "fetch_error", "no_container", "parse_error"}
    \/ kind \in {"no_digits", "no_price"} /\ normal = "linked"

\* fetch_product_page returns the parsed detail page
Fetched(kind) == HasLink(kind) /\ kind # "fetch_error"

\* the items of the breadcrumb of a detail page of the site
UsualCrumbs ==
    << [a |-> << <<"a">> >>, span |-> <<>>],
       [a |-> << <<"b">> >>, span |-> <<>>],
       [a |-> <<>>, span |-> << <<"c">> >>] >>

\* the detail page of a tile
DetailOf(kind) ==
    [raises |-> kind = "parse_error",
     container |-> kind # "no_container",
     items |-> UsualCrumbs]

\* extract_product_data, lines 229-276: the product of the tile at position
\* pos of the listing of the category; the site numbers the tiles of a
\* category in listing order, and the id is the digits of the DOM id
ProductOfTile(pos, kind) ==
    LET breadcrumb_info == IF Fetched(kind)
                           THEN extract_breadcrumbs(DetailOf(kind))
                           ELSE <<>>
    IN  [id |-> IF kind = "no_digits" THEN 0 ELSE pos,
         price |-> kind # "no_price",
         path |-> [i \in DOMAIN breadcrumb_info |->
                      breadcrumb_info[i].category_name]]

\* a for loop that leaves the page at the first entry that gives no product
next_entry_break(idx, found) == IF found THEN idx + 1 ELSE product_entries + 1

\* scrape_products, lines 136-140: the for loop goes to the next entry
\* whether the entry gave a product or not
next_entry(idx, found) == idx + 1

\* scrape_products, lines 136-140, with extract_product_data, lines 223-278,
\* and fetch_product_page, lines 187-190: one pass of the for loop
extract_product_data ==
    /\ tpc = "extract"
    /\ \E kind \in TilesAt(EntriesBefore(page.no) + entryIdx) :
          LET pos == EntriesBefore(page.no) + entryIdx
              nxt == next_entry(entryIdx, kind \notin Misses)
          IN  /\ oddLeft' = IF kind = normal \/ KnownKinds(pos) # {}
                            THEN oddLeft ELSE oddLeft - 1
              /\ seen' = Record(seen, [pos |-> pos, kind |-> kind])
              /\ IF kind \in Misses \/ ~ HasLink(kind)
                 THEN \* no driver.get: the session shows what it showed
                      UNCHANGED onDetail
                 ELSE IF kind = "fetch_error"
                 THEN \* driver.get raises: the exception is caught, the
                      \* session is left on either page
                      onDetail' \in {onDetail, TRUE}
                 ELSE onDetail' = TRUE
              /\ products' = IF kind \in Misses THEN products
                             ELSE Append(products, ProductOfTile(pos, kind))
              /\ IF nxt <= product_entries
                 THEN entryIdx' = nxt /\ tpc' = tpc
                 ELSE entryIdx' = entryIdx /\ tpc' = "goto_next_page"
    /\ UNCHANGED <<page, maxPage, normal, endless>>
    /\ UNCHANGED <<navCaller, attempt, navLog, current_page, product_entries,
                   result, extracted, clicks, ended>>
    /\ UNCHANGED <<mainVars, upsertVars, fieldVars>>

\* the "li.next a" control of the page the session shows: a product detail
\* page has no pagination
next_button == IF onDetail THEN "absent" ELSE page.ctl

\* a goto_next_page that does not look at the class of the control
activates_when_displayed(ctl) == ctl # "hidden"

\* goto_next_page, line 321: the control is activated
activates(ctl) == ~ (ctl = "hidden" \/ ctl = "disabled")

\* scrape_products, lines 142-145, with goto_next_page, lines 315-332
goto_next_page ==
    /\ tpc = "goto_next_page"
    /\ IF next_button = "absent"
       THEN \* the presence wait times out: TimeoutException, return False
            Break("absent") /\ UNCHANGED oddLeft
       ELSE IF ~ activates(next_button)
       THEN Break(next_button) /\ UNCHANGED oddLeft
       ELSE \/ \* scrollIntoView or click raises: return False
               Break("click_error") /\ UNCHANGED oddLeft
            \/ \* the click is done, sleep, return True; current_page += 1
               /\ clicks' = Record(clicks, current_page)
               \* current_page is only logged, line 129: on an endless site
               \* the model stops counting it above MaxPages
               /\ current_page' = IF endless /\ current_page > MaxPages
                                  THEN current_page ELSE current_page + 1
               /\ \/ \* the site loads the next page during the sleep
                     /\ page' \in ListingPages(NextPageNo)
                     /\ UNCHANGED oddLeft
                  \/ \* the click changes nothing: after the sleep the
                     \* session shows the page it showed
                     /\ oddLeft > 0
                     /\ oddLeft' = oddLeft - 1
                     /\ page' = page
               /\ tpc' = "get_page_source"
               /\ UNCHANGED <<result, ended, onDetail, maxPage>>
    /\ UNCHANGED <<navCaller, attempt, navLog, products, product_entries,
                   entryIdx, extracted, seen>>
    /\ UNCHANGED <<normal, endless>>
    /\ UNCHANGED <<mainVars, upsertVars, fieldVars>>


(***************************************************************************)
(* scraper.py: fetch_categories and main.                                  *)
(***************************************************************************)
\* the lists of category anchors the root page can hold
AnchorLists == UNION { [1..n -> Hrefs] : n \in 0..MaxAnchors }

\* fetch_categories, lines 175-185: one category per anchor that has an href
RECURSIVE CategoriesOf(_)
CategoriesOf(anchors) ==
    IF anchors = <<>> THEN <<>>
    ELSE IF Head(anchors) # 0
         THEN <<Head(anchors)>> \o CategoriesOf(Tail(anchors))
         ELSE CategoriesOf(Tail(anchors))

ResetScraper ==
    /\ attempt' = 0
    /\ navLog' = <<>>
    /\ current_page' = 0
    /\ products' = <<>>
    /\ product_entries' = 0
    /\ entryIdx' = 0
    /\ result' = <<>>
    /\ extracted' = <<>>
    /\ clicks' = <<>>
    /\ ended' = "idle"
    /\ seen' = <<>>

\* main, line 347: categories = scraper.fetch_categories(), which starts
\* with safe_get(base_url), line 163
main_start ==
    /\ mpc = "start"
    /\ mpc' = "fetch_categories"
    /\ tpc' = "safe_get"
    /\ navCaller' = "fetch_categories"
    /\ ResetScraper
    /\ UNCHANGED <<categories, catIdx, mproducts, prodIdx, outfile, nReturned,
                   nUpserts, nScraped, raiseStage>>
    /\ UNCHANGED <<siteVars, upsertVars, envVars, fieldVars>>

\* main goes on with the categories fetch_categories returned, lines 348-352
MainGotCategories(cats) ==
    /\ categories' = cats
    /\ catIdx' = 1
    /\ mpc' = IF cats = <<>> THEN "done" ELSE "category"
    /\ tpc' = "idle"
    /\ UNCHANGED <<mproducts, prodIdx, outfile, nReturned, nUpserts, nScraped,
                   raiseStage>>
    /\ UNCHANGED <<navCaller, attempt, navLog, current_page, products,
                   product_entries, entryIdx, result, extracted, clicks, ended,
                   seen>>
    /\ UNCHANGED <<siteVars, upsertVars, envVars, fieldVars>>

\* fetch_categories, lines 163-185, after safe_get has returned
fetch_categories ==
    /\ mpc = "fetch_categories"
    /\ \/ \* safe_get returned False, line 164
          /\ tpc = "returned"
          /\ MainGotCategories(<<>>)
       \/ /\ tpc = "fetch_categories"
          /\ \/ \* the wait for the filter UI times out, or no page source
                MainGotCategories(<<>>)
             \/ \E anchors \in AnchorLists : MainGotCategories(CategoriesOf(anchors))

\* main, lines 352-354: the next category, scrape_products(category["url"]),
\* which starts with safe_get(url), line 121
main_category ==
    /\ mpc = "category"
    /\ IF catIdx > Len(categories)
       THEN /\ mpc' = "done"
            /\ UNCHANGED <<scraperVars, nScraped, raiseStage>>
       ELSE /\ mpc' = "scraping"
            /\ tpc' = "safe_get"
            /\ navCaller' = "scrape_products"
            /\ ResetScraper
            /\ nScraped' = nScraped + 1
            /\ raiseStage' = IF raiseStage = 2 THEN 3 ELSE raiseStage
    /\ UNCHANGED <<categories, catIdx, mproducts, prodIdx, outfile, nReturned,
                   nUpserts>>
    /\ UNCHANGED <<siteVars, upsertVars, envVars, fieldVars>>

\* main, lines 354-357 and 370-372: scrape_products has returned
main_scraped ==
    /\ mpc = "scraping"
    /\ tpc = "returned"
    /\ mproducts' = result
    /\ nReturned' = nReturned + Len(result)
    /\ IF result # <<>>
       THEN mpc' = "product" /\ prodIdx' = 1 /\ catIdx' = catIdx
       ELSE mpc' = "category" /\ prodIdx' = 0 /\ catIdx' = catIdx + 1
    /\ tpc' = "idle"
    /\ UNCHANGED <<navCaller>>
    /\ ResetScraper
    \* the session is not read again before the next driver.get replaces
    \* what it shows
    /\ page' = NoPage /\ onDetail' = FALSE /\ maxPage' = 0
    /\ UNCHANGED <<categories, outfile, nUpserts, nScraped, raiseStage>>
    /\ UNCHANGED <<upsertVars, envVars, fieldVars>>

\* main, lines 358-366: the record is written to the file, then the product
\* is sent to test_write_to_frappe; after the last product, line 372
main_product ==
    /\ mpc = "product"
    /\ IF prodIdx > Len(mproducts)
       THEN /\ mpc' = "category"
            /\ catIdx' = catIdx + 1
            /\ mproducts' = <<>>
            /\ prodIdx' = 0
            /\ raiseStage' = IF raiseStage = 1 THEN 0 ELSE raiseStage
            /\ UNCHANGED <<outfile, nUpserts, upsertVars>>
       ELSE /\ outfile' = Append(outfile, mproducts[prodIdx])
            /\ mpc' = "reconcile"
            /\ EnterUpsert(mproducts[prodIdx])
            /\ raiseStage' = IF raiseStage = 1 THEN 2 ELSE raiseStage
            /\ UNCHANGED <<catIdx, prev, mproducts, prodIdx>>
    /\ UNCHANGED <<categories, nReturned, nScraped>>
    /\ UNCHANGED <<scraperVars, siteVars, envVars, fieldVars>>

\* a main whose handler leaves the for loop of the category
after_exception_break(i) == Len(mproducts) + 1

\* main, lines 367-369: the handler of the product's try block; where the
\* for loop is after an upsert that raised
after_exception(i) == i + 1

\* main, lines 366-369: test_write_to_frappe has returned or raised
main_reconciled ==
    /\ mpc = "reconcile"
    /\ upc \in {"returned", "raised"}
    /\ upc' = "idle"
    /\ mpc' = "product"
    /\ prodIdx' = IF upc = "raised" THEN after_exception(prodIdx) ELSE prodIdx + 1
    /\ raiseStage' = IF upc = "raised" /\ raiseStage = 0 THEN 1 ELSE raiseStage
    /\ UNCHANGED <<categories, catIdx, mproducts, outfile, nReturned, nUpserts,
                   nScraped>>
    \* the locals of the finished call are gone
    /\ uprod' = NoProduct /\ exists' = FALSE /\ calls' = <<>>
    /\ UNCHANGED prev
    /\ UNCHANGED <<scraperVars, siteVars, envVars, fieldVars>>

(***************************************************************************)
(* The field extractors and the record mapping applied to one input.       *)
(***************************************************************************)
\* the price blocks of a tile: product-price div h3, its em and its span
PriceBlocks ==
    { [h3 |-> h, em |-> e, span |-> c] :
        h \in BOOLEAN,
        e \in Opt(TextsOver({"0", "3"}, 1, MaxDigits)),
        c \in Opt(TextsOver({"4", "5", "c"}, 0, MaxDigits)) }

\* the texts "$<amount> / <qty><rest>" of a span.cupPrice
UnitPriceTexts ==
    { [amount |-> a, qty |-> q, rest |-> r] :
        a \in { <<"3">>, <<"1", ".", "5">> },
        q \in TextsOver({"0", "1"}, 1, MaxDigits),
        r \in { <<"g">>, <<"k", "g">>, <<"m", "l">>, <<"l">>, <<"e", "a">> } }

\* the DOM ids the selector h3[id*='-title'] lets through
DomIds ==
    { prefix \o <<"-", "t", "i", "t", "l", "e">> :
        prefix \in TextsOver({"1", "2", "p"}, 0, MaxDigits) }

\* the texts of the a and of the span of a breadcrumb item
CrumbTexts == { <<" ">>, <<"a">>, <<" ", "b">> }

CrumbItems == { [a |-> x, span |-> y] : x \in Opt(CrumbTexts), y \in Opt(CrumbTexts) }

\* parsed product detail pages
Soups ==
    { [raises |-> FALSE, container |-> TRUE, items |-> its] :
        its \in TextsOver(CrumbItems, 0, MaxCrumbs) }
    \cup { [raises |-> r, container |-> c, items |-> its] :
             r \in BOOLEAN, c \in BOOLEAN, its \in TextsOver(CrumbItems, 0, 1) }

\* products as test_write_to_frappe can be given them: without
\* product_categories, or with a list of names
MappedProducts ==
    {NewProduct}
    \cup { NewProduct @@ ("product_categories" :> path) :
             path \in TextsOver({ <<"a">>, <<"b">> }, 0, MaxCrumbs) }

FieldInputs ==
    { [fn |-> "price", entry |-> e] : e \in PriceBlocks }
    \cup { [fn |-> "unit_price", entry |-> [cupPrice |-> c]] :
             c \in Opt(UnitPriceTexts) }
    \cup { [fn |-> "id", dom_id |-> d] : d \in DomIds }
    \cup { [fn |-> "breadcrumbs", soup |-> b] : b \in Soups }
    \cup { [fn |-> "frappe", product |-> m] : m \in MappedProducts }

NoInput == [fn |-> "none"]

FieldReturn(value, next) ==
    /\ out' = value
    /\ fpc' = next
    /\ UNCHANGED arg
    /\ UNCHANGED <<mainVars, scraperVars, siteVars, envVars, upsertVars>>

\* extract_product_data, line 230
field_product_id ==
    /\ fpc = "start" /\ arg.fn = "id"
    /\ FieldReturn(product_id(arg.dom_id), "done")

\* extract_product_data, line 254
field_extract_price ==
    /\ fpc = "start" /\ arg.fn = "price"
    /\ FieldReturn(extract_price(arg.entry, out), "done")

\* extract_product_data, line 255
field_extract_unit_price ==
    /\ fpc = "start" /\ arg.fn = "unit_price"
    /\ FieldReturn(extract_unit_price(arg.entry, out), "done")

\* extract_product_data, line 263
field_extract_breadcrumbs ==
    /\ fpc = "start" /\ arg.fn = "breadcrumbs"
    /\ FieldReturn(extract_breadcrumbs(arg.soup), "crumbs")

\* extract_product_data, lines 265-269
field_set_product_categories ==
    /\ fpc = "crumbs"
    /\ FieldReturn(set_product_categories(NewProduct, out), "product")

\* test_write_to_frappe, lines 56-75, on the product extract_product_data
\* returned or on a product given to it
field_frappe_product ==
    \/ /\ fpc = "product"
       /\ FieldReturn(frappe_product(out), "done")
    \/ /\ fpc = "start" /\ arg.fn = "frappe"
       /\ FieldReturn(frappe_product(arg.product), "done")

(***************************************************************************)
(* The specifications.                                                     *)
(***************************************************************************)
InitCommon ==
    /\ categories = <<>> /\ catIdx = 0 /\ mproducts = <<>> /\ prodIdx = 0
    /\ outfile = <<>> /\ nReturned = 0 /\ nUpserts = 0 /\ nScraped = 0
    /\ raiseStage = 0
    /\ tpc = "idle" /\ navCaller = "none" /\ attempt = 0 /\ navLog = <<>>
    /\ current_page = 0 /\ products = <<>> /\ product_entries = 0
    /\ entryIdx = 0 /\ result = <<>> /\ extracted = <<>> /\ clicks = <<>>
    /\ ended = "idle" /\ seen = <<>>
    /\ page = NoPage /\ onDetail = FALSE /\ maxPage = 0
    /\ upc = "idle" /\ uprod = NoProduct /\ exists = FALSE /\ calls = <<>>
    /\ prev = NoCall

\* no field extractor is run on its own
InitNoField == fpc = "idle" /\ arg = NoInput /\ out = NewProduct

\* scraper.py run as a program, main(), on a site whose tiles are all of
\* the usual kind
Init ==
    /\ mpc = "start" /\ InitCommon /\ InitNoField
    /\ normal \in Usual /\ oddLeft = 0 /\ endless = FALSE

Next ==
    \/ main_start
    \/ safe_get
    \/ fetch_categories
    \/ main_category
    \/ get_page_source
    \/ extract_product_data
    \/ goto_next_page
    \/ main_scraped
    \/ main_product
    \/ check_product_exists
    \/ update_product
    \/ create_product
    \/ main_reconciled

Spec == Init /\ [][Next]_vars

\* frappe_write.py run as a program, again and again
InitUpsert ==
    /\ mpc = "harness" /\ InitCommon /\ InitNoField
    /\ normal = "plain" /\ oddLeft = 0 /\ endless = FALSE

NextUpsert ==
    \/ harness_call
    \/ check_product_exists
    \/ update_product
    \/ create_product

SpecUpsert == InitUpsert /\ [][NextUpsert]_vars

\* main() at line 352, when fetch_categories has returned one category at
\* its first navigation attempt
InitCategory ==
    /\ mpc = "category" /\ categories = <<1>> /\ catIdx = 1
    /\ mproducts = <<>> /\ prodIdx = 0
    /\ outfile = <<>> /\ nReturned = 0 /\ nUpserts = 0 /\ nScraped = 0
    /\ raiseStage = 0
    /\ tpc = "idle" /\ navCaller = "fetch_categories" /\ attempt = 0
    /\ navLog = <<"get_ok", "sleep">>
    /\ current_page = 0 /\ products = <<>> /\ product_entries = 0
    /\ entryIdx = 0 /\ result = <<>> /\ extracted = <<>> /\ clicks = <<>>
    /\ ended = "idle" /\ seen = <<>>
    /\ page = NoPage /\ onDetail = FALSE /\ maxPage = 0
    /\ upc = "idle" /\ uprod = NoProduct /\ exists = FALSE /\ calls = <<>>
    /\ prev = NoCall

\* main() from its for loop on, over one category of a site where up to
\* MaxOdd tiles differ from the usual one
InitScrape ==
    /\ InitCategory /\ InitNoField
    /\ normal \in Usual /\ oddLeft = MaxOdd /\ endless = FALSE

NextScrape ==
    \/ main_category
    \/ safe_get
    \/ get_page_source
    \/ extract_product_data
    \/ goto_next_page
    \/ main_scraped
    \/ main_product
    \/ check_product_exists
    \/ update_product
    \/ create_product
    \/ main_reconciled

SpecScrape == InitScrape /\ [][NextScrape]_vars

\* main() from its for loop on, over one category of a site whose
\* pagination has no last page and whose tiles give no product
InitEndless ==
    /\ InitCategory /\ InitNoField
    /\ normal \in Misses /\ oddLeft = 0 /\ endless = TRUE

NextEndless ==
    \/ main_category
    \/ safe_get
    \/ get_page_source
    \/ extract_product_data
    \/ goto_next_page
    \/ main_scraped

\* the program is sequential and every call it makes returns: a step that
\* can be taken is taken
SpecEndless == InitEndless /\ [][NextEndless]_vars /\ WF_vars(NextEndless)

\* a field extractor, or the record mapping, applied to one input
InitFields ==
    /\ mpc = "fields" /\ InitCommon
    /\ normal = "plain" /\ oddLeft = 0 /\ endless = FALSE
    /\ fpc = "start" /\ arg \in FieldInputs /\ out = NewProduct

NextFields ==
    \/ field_product_id
    \/ field_extract_price
    \/ field_extract_unit_price
    \/ field_extract_breadcrumbs
    \/ field_set_product_categories
    \/ field_frappe_product

SpecFields == InitFields /\ [][NextFields]_vars

TypeOK ==
    /\ mpc \in {"start", "fetch_categories", "category", "scraping", "product",
                "reconcile", "done", "harness", "fields"}
    /\ tpc \in {"idle", "safe_get", "fetch_categories", "get_page_source",
                "extract", "goto_next_page", "returned"}
    /\ upc \in {"idle", "check", "update", "create", "returned", "raised"}
    /\ attempt \in 0..max_retries
    /\ page.no \in 0..MaxPages
    /\ exists \in BOOLEAN
    /\ oddLeft \in 0..MaxOdd
    /\ fpc \in {"idle", "start", "crumbs", "product", "done"}

(***************************************************************************)
(* The reconciliation client.                                              *)
(***************************************************************************)
UpsertOver == upc \in {"returned", "raised"}

\* the number of requests of a log that use method m
RECURSIVE CountMethod(_, _)
CountMethod(log, m) ==
    IF log = <<>> THEN 0
    ELSE (IF Head(log).method = m THEN 1 ELSE 0) + CountMethod(Tail(log), m)

\* C1: every upsert call issues exactly one existence GET first and then
\* exactly one write: a PUT to {base}/{id} and no POST when the GET returned
\* 200, a POST to {base} and no PUT otherwise; nothing is sent twice.
C1_OneGetThenOneWrite ==
    /\ upc = "check" => calls = <<>>
    /\ upc \in {"update", "create"} =>
          /\ Len(calls) = 1
          /\ calls[1].method = "GET" /\ calls[1].id = uprod.id
          /\ (upc = "update") <=> (calls[1].status = 200)
    /\ UpsertOver =>
          /\ Len(calls) = 2
          /\ calls[1].method = "GET" /\ calls[1].id = uprod.id
          /\ IF calls[1].status = 200
             THEN calls[2].method = "PUT" /\ calls[2].id = uprod.id
             ELSE calls[2].method = "POST" /\ calls[2].id = 0

C1_Witness ==
    /\ UpsertOver /\ Len(calls) = 2
    /\ calls[1].status = 200 /\ calls[2].method = "PUT"
    /\ mpc = "reconcile"

\* C2: a create (POST) answered with a non-success status makes the upsert
\* return normally; an update (PUT) answered with a non-success status makes
\* the upsert raise to its caller.
C2_CreateSwallowsUpdateRaises ==
    \A c \in {prev, [id |-> uprod.id, calls |-> calls, outcome |-> upc]} :
        (c.outcome \in {"returned", "raised"} /\ Len(c.calls) = 2) =>
            /\ (c.calls[2].method = "POST" /\ c.calls[2].status >= 400)
                  => c.outcome = "returned"
            /\ (c.calls[2].method = "PUT" /\ c.calls[2].status >= 400)
                  => c.outcome = "raised"
            /\ c.calls[2].status < 400 => c.outcome = "returned"

C2_Witness ==
    /\ prev.outcome = "returned" /\ Len(prev.calls) = 2
    /\ prev.calls[2].method = "POST" /\ prev.calls[2].status = 500
    /\ upc = "raised" /\ Len(calls) = 2
    /\ calls[2].method = "PUT" /\ calls[2].status = 500

\* C3: for every existence-check status other than 200 (404 and 500 alike)
\* check_product_exists reports "not exists" without raising, and the upsert
\* then attempts a create and never an update.
C3_Non200IsNotExists ==
    (calls # <<>> /\ calls[1].status # 200) =>
        /\ exists = FALSE
        /\ upc \in {"create", "returned"}
        /\ CountMethod(calls, "PUT") = 0
        /\ upc = "returned" => CountMethod(calls, "POST") = 1

C3_Witness ==
    /\ upc = "returned" /\ Len(calls) = 2
    /\ calls[1].status = 500 /\ calls[2].method = "POST"

\* the previous and the current call of the harness are two completed calls
\* of the upsert with the same product
TwoCallsSameProduct ==
    /\ UpsertOver
    /\ prev.outcome \in {"returned", "raised"}
    /\ prev.id = uprod.id

\* C4 as stated: two upsert calls with the same product, the existence check
\* answering "exists" on the second call, make exactly one update call over
\* the two calls and no second create.
C4_AsStated ==
    (TwoCallsSameProduct /\ calls[1].status = 200) =>
        /\ CountMethod(prev.calls \o calls, "PUT") = 1
        /\ CountMethod(calls, "POST") = 0

\* C4 as amended: two upsert calls with the same product, the existence check
\* answering "not exists" on the first call and "exists" on the second, make
\* exactly one update call and exactly one create call over the two calls,
\* the create in the first call and the update in the second.
C4_CreateThenUpdate ==
    (TwoCallsSameProduct /\ prev.calls[1].status # 200 /\ calls[1].status = 200) =>
        /\ CountMethod(prev.calls \o calls, "PUT") = 1
        /\ CountMethod(prev.calls \o calls, "POST") = 1
        /\ CountMethod(calls, "POST") = 0
        /\ CountMethod(prev.calls, "PUT") = 0

C4_Witness ==
    /\ TwoCallsSameProduct
    /\ prev.calls[1].status = 404 /\ prev.calls[2].method = "POST"
    /\ calls[1].status = 200 /\ calls[2].method = "PUT"

(***************************************************************************)
(* The run.                                                                *)
(***************************************************************************)
\* C5: a failed remote update is fatal only for its product: after an
\* upsert has raised, the for loop goes on with the next product of the same
\* category, and at the end of the run every product that a traversal
\* returned has been written and sent to the upsert and every category has
\* been traversed.
C5_RunGoesOnAfterRaise ==
    /\ (mpc = "reconcile" /\ UpsertOver) => prodIdx \in 1..Len(mproducts)
    /\ mpc = "product" => /\ prodIdx \in 1..(Len(mproducts) + 1)
                          /\ nUpserts = nReturned - Len(mproducts) + prodIdx - 1
    /\ (mpc = "done" /\ categories # <<>>) =>
          /\ nScraped = Len(categories)
          /\ nUpserts = nReturned
          /\ Len(outfile) = nReturned

C5_Witness == mpc = "done" /\ raiseStage = 3

(***************************************************************************)
(* The traversal of a category.                                            *)
(***************************************************************************)
TraversalOver == tpc = "returned" /\ navCaller = "scrape_products"

\* the products of the tiles of a sequence of listing pages whose tiles are
\* all of the usual kind, in page order and, within a page, in entry order
ProductsOfPages(pages) ==
    [k \in 1..TotalEntries(pages) |-> ProductOfTile(k, normal)]

\* C6: a category whose listing pages all have entries and all but the last
\* show a visible, enabled next control is walked to its last page: when no
\* navigation, page source or click fails, the traversal ends on a page
\* whose next control is not enabled and returns the products of every page
\* up to it, also when entries expose a product-detail link.
C6_WalksToTheLastPage ==
    (TraversalOver /\ ended \in {"absent", "hidden", "disabled"}) =>
        /\ page.ctl # "enabled"
        /\ result = ProductsOfPages(extracted)

\* C7: the next control is activated only while currentPage < maxPage, so
\* that at most max(maxPage, 1) pages are extracted per category.
C7_NextOnlyBelowMaxPage ==
    navCaller = "scrape_products" =>
        /\ \A i \in DOMAIN clicks : clicks[i] < maxPage
        /\ Len(extracted) <= (IF maxPage > 1 THEN maxPage ELSE 1)

\* C8: the traversal ends without activating the next control whenever the
\* control is absent, not visible or carries a disabled indicator, and ends
\* without attempting to advance whenever a page yields no entries; no page
\* is extracted after either event.
C8_EndsWithoutActivating ==
    [][ /\ (tpc = "goto_next_page"
              /\ next_button \in {"absent", "hidden", "disabled"}) =>
                 /\ tpc' = "returned"
                 /\ clicks' = clicks
                 /\ extracted' = extracted
                 /\ result' = products
        /\ (tpc = "get_page_source" /\ find_product_entries = 0) =>
                 /\ tpc' = "returned"
                 /\ clicks' = clicks
                 /\ extracted' = extracted
                 /\ result' = products
        /\ (tpc = "returned" /\ mpc = "scraping") =>
                 /\ tpc' = "idle"
                 /\ mproducts' = result ]_vars

C8_Witness ==
    /\ TraversalOver /\ ended = "disabled"
    /\ Len(extracted) = 2 /\ clicks = <<1>> /\ page.ctl = "disabled"

\* C9: a page-level failure after the first page (timeout or error while
\* advancing, unreadable page source, a page with no entries) ends only the
\* traversal of the category: scrape_products returns the products of the
\* pages extracted before the failure, unchanged and in order, and main goes
\* on with them.
C9_PartialResultsKept ==
    /\ (TraversalOver
          /\ ended \in {"absent", "click_error", "no_source", "no_entries"}) =>
             /\ result = ProductsOfPages(extracted)
             /\ mpc = "scraping"
    /\ (mpc = "product" /\ prodIdx = 1) => mproducts # <<>>

C9_Witness ==
    /\ TraversalOver /\ ended = "no_source"
    /\ Len(extracted) = 1 /\ clicks = <<1>> /\ Len(result) = MaxEntries

\* the number of elements of a log that are in the set evs
RECURSIVE CountIn(_, _)
CountIn(log, evs) ==
    IF log = <<>> THEN 0
    ELSE (IF Head(log) \in evs THEN 1 ELSE 0) + CountIn(Tail(log), evs)

\* C10: loading a category makes at most max_retries navigation attempts,
\* stops at the first that succeeds and sleeps between consecutive failed
\* attempts; when all max_retries attempts have failed the category is
\* abandoned: no page is extracted and scrape_products returns an empty
\* sequence, without raising.
C10_BoundedRetries ==
    navCaller = "scrape_products" =>
        /\ CountIn(navLog, {"get_ok", "get_fail"}) <= max_retries
        /\ \A i \in DOMAIN navLog :
              /\ navLog[i] = "get_ok" =>
                    \A k \in DOMAIN navLog :
                        k > i => navLog[k] \notin {"get_ok", "get_fail"}
              /\ (navLog[i] = "get_fail" /\ i < Len(navLog)) =>
                    /\ navLog[i + 1] = "sleep"
                    /\ i + 2 <= Len(navLog) => navLog[i + 2] \in {"get_ok", "get_fail"}
        /\ (CountIn(navLog, {"get_fail"}) = max_retries) <=> (ended = "abandoned")
        /\ ended = "abandoned" =>
              /\ tpc = "returned"
              /\ extracted = <<>>
              /\ result = <<>>
              /\ CountIn(navLog, {"get_ok"}) = 0

C10_Witness ==
    /\ TraversalOver /\ ended = "abandoned"
    /\ navLog = <<"get_fail", "sleep", "get_fail", "sleep", "get_fail">>

(***************************************************************************)
(* The extraction of the entries of a page.                                *)
(***************************************************************************)
\* the entries handed to extract_product_data that gave a product, in the
\* order they were handed over
Found == SelectSeq(seen, LAMBDA entry : entry.kind \notin Misses)

\* C11: the sequence scrape_products returns is exactly the products of the
\* entries whose extraction succeeded, in page order and, within a page, in
\* entry order; an entry that gives no product adds nothing, is handed to
\* extract_product_data once only, and does not keep the later entries of
\* the page or the later pages from being extracted.
C11_ResultIsTheSuccessfulExtractions ==
    navCaller = "scrape_products" =>
        /\ products = [k \in 1..Len(Found) |->
                          ProductOfTile(Found[k].pos, Found[k].kind)]
        /\ tpc = "extract" =>
              Len(seen) = TotalEntries(SubSeq(extracted, 1, Len(extracted) - 1))
                          + entryIdx - 1
        /\ tpc # "extract" => Len(seen) = TotalEntries(extracted)
        /\ TraversalOver =>
              /\ ended \in {"abandoned", "no_source", "no_entries", "absent",
                            "hidden", "disabled", "click_error"}
              /\ result = products

C11_Witness ==
    /\ TraversalOver /\ Len(extracted) = 2
    /\ Len(seen) = 2 * MaxEntries /\ seen[1].kind = "no_title"
    /\ Len(result) = Len(seen) - 1
    /\ result[1].id = 2

RECURSIVE Pow10(_)
Pow10(n) == IF n = 0 THEN 1 ELSE 10 * Pow10(n - 1)

\* two floats are the same number
SameNumber(x, y) == x.num * Pow10(y.exp) = y.num * Pow10(x.exp)

\* the units of the unit-price pattern
ClaimedUnits == { <<"g">>, <<"k", "g">>, <<"m", "l">>, <<"l">> }

\* C12: for every unit-price text "$<amount> / <qty><unit>" with unit g, kg,
\* ml or l, the unitName of the product is 'kg' or 'L': a price per g
\* becomes a price per kg, 1000 times the amount; a price per ml becomes a
\* price per L, 1000 times the amount; a price per kg keeps its amount; a
\* price per l gets the unitName 'L' and keeps its amount.
C12_UnitNameIsKgOrL ==
    (fpc = "done" /\ arg.fn = "unit_price" /\ arg.entry.cupPrice # <<>>
        /\ arg.entry.cupPrice[1].rest \in ClaimedUnits) =>
        LET text == arg.entry.cupPrice[1]
        IN  /\ "unitName" \in DOMAIN out
            /\ out.unitName = (IF text.rest \in { <<"g">>, <<"k", "g">> }
                               THEN <<"k", "g">> ELSE <<"L">>)
            /\ SameNumber(out.unitPrice,
                          IF text.rest \in { <<"g">>, <<"m", "l">> }
                          THEN Times(float(text.amount), 1000)
                          ELSE float(text.amount))

\* C13: the currentPrice of a tile whose price block has a whole part and a
\* cents part is the number <whole>.<cents>, cents being the digits of the
\* cents text, and <whole>.00 when the cents text has no digit.
C13_PriceIsWholePointCents ==
    (fpc = "done" /\ arg.fn = "price" /\ arg.entry.h3
        /\ arg.entry.em # <<>> /\ arg.entry.span # <<>>) =>
        LET whole == IntOf(arg.entry.em[1])
            cents == DigitsOf(arg.entry.span[1])
        IN  /\ "currentPrice" \in DOMAIN out
            /\ SameNumber(out.currentPrice,
                          [num |-> whole * Pow10(Len(cents)) + IntOf(cents),
                           exp |-> Len(cents)])

\* the products the run holds: those of the traversal, those main iterates
\* over, and the one of the upsert
HeldProducts ==
    { products[i] : i \in DOMAIN products }
    \cup { result[i] : i \in DOMAIN result }
    \cup { mproducts[i] : i \in DOMAIN mproducts }
    \cup (IF upc = "idle" THEN {} ELSE {uprod})

\* C14: a tile whose price block lacks the whole or the cents element gives
\* no product: no record without currentPrice is returned by the traversal,
\* written to the file or sent to the upsert.
C14_NoRecordWithoutPrice ==
    /\ \A p \in HeldProducts : p.price
    /\ \A i \in DOMAIN outfile : outfile[i].price

\* C15: every product the traversal returns and main passes to the upsert
\* has a non-empty id: a title whose DOM id has no digit gives no record
\* that is written or sent, and no request is made for an empty id.
C15_IdsAreNonEmpty ==
    /\ \A p \in HeldProducts : p.id # 0
    /\ \A i \in DOMAIN outfile : outfile[i].id # 0
    /\ \A i \in DOMAIN calls :
          calls[i].method \in {"GET", "PUT"} => calls[i].id # 0

(***************************************************************************)
(* The category path.                                                      *)
(***************************************************************************)
\* the element is there and its text is not blank
HasText(element) == element # <<>> /\ Strip(element[1]) # <<>>

\* the breadcrumb items that give a label, in document order
Labelled(items) ==
    SelectSeq(items, LAMBDA item : HasText(item.a) \/ HasText(item.span))

\* the label of such an item
LabelOf(item) ==
    IF HasText(item.a) THEN Strip(item.a[1]) ELSE Strip(item.span[1])

\* C16: the category path of a product is the labels of the breadcrumb
\* items in document order, the text of the link when the item has a link
\* with a non-blank text and else the text of the plain label when there is
\* one; an item with neither is left out; the order is kept by
\* extract_breadcrumbs, by the product and by the product_categories of the
\* record sent to the remote.
C16_PathIsTheLabelsInOrder ==
    (arg.fn = "breadcrumbs" /\ ~ arg.soup.raises /\ arg.soup.container) =>
        LET items == Labelled(arg.soup.items)
        IN  /\ fpc = "crumbs" =>
                  out = [i \in 1..Len(items) |->
                            [category_name |-> LabelOf(items[i])]]
            /\ fpc = "product" =>
                  get_product_categories(out)
                      = [i \in 1..Len(items) |-> LabelOf(items[i])]
            /\ fpc = "done" =>
                  out.product_categories
                      = [i \in 1..Len(items) |->
                            [category_name |-> LabelOf(items[i])]]

C16_Witness ==
    /\ fpc = "done" /\ arg.fn = "breadcrumbs"
    /\ Len(arg.soup.items) = 3
    /\ HasText(arg.soup.items[3].a) /\ HasText(arg.soup.items[3].span)
    /\ ~ HasText(arg.soup.items[1].a)
    /\ out.product_categories = << [category_name |-> <<"b">>],
                                   [category_name |-> <<"a">>] >>

\* the tiles whose category path cannot be resolved
PathFailures == {"fetch_error", "no_container", "parse_error"}

\* C17: the resolution of the category path never ends the work of its
\* caller: a tile whose detail page cannot be fetched or parsed, or has no
\* breadcrumb container, gives a product with its other fields and an empty
\* path, and the traversal goes on as the listing page says, so it ends
\* for a missing next control only when the listing page has none.
C17_ResolutionNeverEndsTheTraversal ==
    \A i \in DOMAIN seen :
        seen[i].kind \in PathFailures =>
            /\ \E k \in DOMAIN products :
                  products[k] = [id |-> seen[i].pos, price |-> TRUE, path |-> <<>>]
            /\ (TraversalOver /\ ended = "absent") => page.ctl = "absent"

\* C18: the category of the record sent to the remote is the third element
\* of the category path when the path has three elements or more and the
\* empty text otherwise; its product_categories has one {category_name}
\* entry per element of the path, in order, whatever the length of the
\* path, 0 included.
C18_CategoryIsThirdElement ==
    (fpc = "done" /\ arg.fn = "frappe") =>
        LET path == IF "product_categories" \in DOMAIN arg.product
                    THEN arg.product.product_categories
                    ELSE <<>>
        IN  /\ out.category = (IF Len(path) >= 3 THEN path[3] ELSE <<>>)
            /\ Len(out.product_categories) = Len(path)
            /\ \A i \in 1..Len(path) :
                  out.product_categories[i] = [category_name |-> path[i]]

C18_Witness ==
    /\ fpc = "done" /\ arg.fn = "frappe"
    /\ Len(out.product_categories) = 3
    /\ out.product_categories[2].category_name = <<"a">>
    /\ out.category = <<"b">>

(***************************************************************************)
(* Discovery and termination.                                              *)
(***************************************************************************)
\* C19: the categories fetch_categories returns are deduplicated by url,
\* so main traverses no category twice.
C19_CategoriesHaveDistinctUrls ==
    \A i, j \in DOMAIN categories :
        i # j => categories[i] # categories[j]

\* C20: every traversal of a category comes to its end, whatever the site
\* does, also when every page has entries and an enabled next control.
C20_TraversalEnds == (mpc = "scraping") ~> (tpc = "returned")

(***************************************************************************)
(* The advance to the next page and the output file.                       *)
(***************************************************************************)
\* C21: after the next control is activated the traversal counts a new page
\* and parses again only when the site has gone to another page, so
\* current_page is the number of the page the session shows and no listing
\* page is extracted twice in one traversal.
C21_NoPageExtractedTwice ==
    navCaller = "scrape_products" =>
        /\ \A i, j \in DOMAIN extracted :
              i # j => extracted[i].no # extracted[j].no
        /\ tpc \in {"get_page_source", "extract", "goto_next_page"} =>
              current_page = page.no

\* C22: whenever goto_next_page looks up the next control the session shows
\* the listing page whose entries were just extracted, and not a product
\* detail page a fetch of the extraction has left it on.
C22_AdvancesOnTheListingPage == tpc = "goto_next_page" => ~ onDetail

\* C23: a record is written to the output file only after the upsert of its
\* product has been performed: the file never holds more records than
\* upserts have come to their end.
C23_WrittenAfterReconciliation ==
    Len(outfile) <= nUpserts - (IF upc \in {"check", "update", "create"}
                                THEN 1 ELSE 0)

====
